---- MODULE Spec2Model ----
(***************************************************************************)
(* Meeting AI Analyzer: the persistence store (utils/database.py), the     *)
(* audio normalizer (utils/audio_processor.py), the analysis stages        *)
(* (utils/ai_analyzer.py) and the upload pipeline                          *)
(* (components/file_upload.py), as one state machine.                      *)
(***************************************************************************)
EXTENDS Integers, Sequences, FiniteSets, TLC

(***************************************************************************)
(* Bounds of the model.                                                    *)
(***************************************************************************)
\* successful pipeline runs of one session (specification Spec)
MaxRuns == 1
\* successful direct saves of one session (specification SpecStore)
MaxSaves == 2
\* the largest topic count asked of extract_topics (specification SpecStages)
MaxTopicCount == 7

VARIABLES
    rows,     \* the meetings table: a set of rows, one per id
    seq,      \* sqlite_sequence: the largest id AUTOINCREMENT ever assigned
    now,      \* the wall clock, in seconds, as the latest row written read it
    files,    \* the scratch files that exist on disk
    last,     \* the last operation on the store: its name, inputs and result
    issued,   \* the ids returned by the successful saves, oldest first
    run,      \* the pipeline: its position and locals
    session_state  \* st.session_state of the history page, and the clicks it got

vars == <<rows, seq, now, files, last, issued, run, session_state>>

(***************************************************************************)
(* Python values.  A value is a record tagged with its Python type; a      *)
(* string is the sequence of its symbols, a dict the sequence of its       *)
(* <<key, value>> items in insertion order.                                *)
(***************************************************************************)
None == [type |-> "None"]
Str(s) == [type |-> "str", s |-> s]
Num(n) == [type |-> "num", n |-> n]
\* a float, in hundredths
Float(h) == [type |-> "float", h |-> h]
List(items) == [type |-> "list", items |-> items]
Dict(members) == [type |-> "dict", members |-> members]
\* an object of a class json cannot encode (a response model of the SDK)
Opaque == [type |-> "object"]

\* bool(v): the test `if v` applies
Truthy(v) ==
    CASE v.type = "None" -> FALSE
      [] v.type = "str" -> Len(v.s) > 0
      [] v.type = "num" -> v.n # 0
      [] v.type = "float" -> v.h # 0
      [] v.type = "list" -> Len(v.items) > 0
      [] v.type = "dict" -> Len(v.members) > 0
      [] OTHER -> TRUE

Range(s) == {s[i] : i \in 1..Len(s)}
Keys(d) == {d.members[i][1] : i \in 1..Len(d.members)}
HasKey(d, k) == d.type = "dict" /\ k \in Keys(d)
\* d[k]
Get(d, k) == d.members[CHOOSE i \in 1..Len(d.members) : d.members[i][1] = k][2]

(***************************************************************************)
(* json.dumps and json.loads.  A text is a sequence of tokens: the         *)
(* punctuation, a key with its colon, a string literal, a number, null.    *)
(***************************************************************************)
Tok(s) == [t |-> s]
KeyTok(k) == [t |-> "key", k |-> k]
StrTok(s) == [t |-> "str", s |-> s]
NumTok(n) == [t |-> "num", n |-> n]
FloatTok(h) == [t |-> "float", h |-> h]

RECURSIVE Serializable(_)
Serializable(v) ==
    CASE v.type = "list" -> \A i \in 1..Len(v.items) : Serializable(v.items[i])
      [] v.type = "dict" -> \A i \in 1..Len(v.members) : Serializable(v.members[i][2])
      [] v.type = "object" -> FALSE
      [] OTHER -> TRUE

RECURSIVE Dumps(_)
RECURSIVE DumpItems(_, _)
RECURSIVE DumpMembers(_, _)
\* the items of a list from the i-th on, comma separated
DumpItems(items, i) ==
    IF i > Len(items) THEN <<>>
    ELSE (IF i > 1 THEN <<Tok(",")>> ELSE <<>>)
         \o Dumps(items[i]) \o DumpItems(items, i + 1)
DumpMembers(members, i) ==
    IF i > Len(members) THEN <<>>
    ELSE (IF i > 1 THEN <<Tok(",")>> ELSE <<>>)
         \o <<KeyTok(members[i][1])>> \o Dumps(members[i][2])
         \o DumpMembers(members, i + 1)
\* json.dumps(v), for a v json can encode
Dumps(v) ==
    CASE v.type = "None" -> <<Tok("null")>>
      [] v.type = "str" -> <<StrTok(v.s)>>
      [] v.type = "num" -> <<NumTok(v.n)>>
      [] v.type = "float" -> <<FloatTok(v.h)>>
      [] v.type = "list" -> <<Tok("[")>> \o DumpItems(v.items, 1) \o <<Tok("]")>>
      [] v.type = "dict" -> <<Tok("{")>> \o DumpMembers(v.members, 1) \o <<Tok("}")>>

\* the parser's result: a value and the place after it, or a failure
ParseFail == [ok |-> FALSE]
Parsed(v, next) == [ok |-> TRUE, v |-> v, next |-> next]
At(text, i, s) == i <= Len(text) /\ text[i].t = s

RECURSIVE ParseValue(_, _)
RECURSIVE ParseItems(_, _, _)
RECURSIVE ParseMembers(_, _, _)
\* after an item of a list: "]" ends it, "," announces the next item
ParseItems(text, i, acc) ==
    IF At(text, i, "]") THEN Parsed(List(acc), i + 1)
    ELSE IF At(text, i, ",")
         THEN LET r == ParseValue(text, i + 1)
              IN  IF r.ok THEN ParseItems(text, r.next, Append(acc, r.v)) ELSE ParseFail
         ELSE ParseFail
ParseMembers(text, i, acc) ==
    IF At(text, i, "}") THEN Parsed(Dict(acc), i + 1)
    ELSE IF At(text, i, ",") /\ At(text, i + 1, "key")
         THEN LET r == ParseValue(text, i + 2)
              IN  IF r.ok
                  THEN ParseMembers(text, r.next, Append(acc, <<text[i + 1].k, r.v>>))
                  ELSE ParseFail
         ELSE ParseFail
ParseValue(text, i) ==
    IF i > Len(text) THEN ParseFail
    ELSE CASE text[i].t = "null" -> Parsed(None, i + 1)
           [] text[i].t = "str" -> Parsed(Str(text[i].s), i + 1)
           [] text[i].t = "num" -> Parsed(Num(text[i].n), i + 1)
           [] text[i].t = "float" -> Parsed(Float(text[i].h), i + 1)
           [] text[i].t = "[" ->
                IF At(text, i + 1, "]") THEN Parsed(List(<<>>), i + 2)
                ELSE LET r == ParseValue(text, i + 1)
                     IN  IF r.ok THEN ParseItems(text, r.next, <<r.v>>) ELSE ParseFail
           [] text[i].t = "{" ->
                IF At(text, i + 1, "}") THEN Parsed(Dict(<<>>), i + 2)
                ELSE IF At(text, i + 1, "key")
                     THEN LET r == ParseValue(text, i + 2)
                          IN  IF r.ok
                              THEN ParseMembers(text, r.next, << <<text[i + 1].k, r.v>> >>)
                              ELSE ParseFail
                     ELSE ParseFail
           [] OTHER -> ParseFail

\* json.loads(text) raises unless the whole text is one value
CanLoad(text) == LET r == ParseValue(text, 1) IN r.ok /\ r.next = Len(text) + 1
Loads(text) == ParseValue(text, 1).v

(***************************************************************************)
(* The persistence store: utils/database.py.                               *)
(***************************************************************************)
\* a column of a row: the null marker or a text
Null == [null |-> TRUE]
Text(t) == [null |-> FALSE, text |-> t]
\* the id a failed save returns (Python None; a row id is at least 1)
NoId == 0

StructuredFields ==
    {"transcription", "summary", "sentiment", "topics", "speakers", "knowledge_graph"}

\* `json.dumps(v) if v is not None else None`
ColumnIfNotNone(v) == IF v.type # "None" THEN Text(Dumps(v)) ELSE Null
\* `json.dumps(v) if v else None`: the parameter save binds to a structured column
Column(v) == IF Truthy(v) THEN Text(Dumps(v)) ELSE Null
\* `json.loads(c) if c else None`: a structured column as the readers return it
ColumnTruthy(c) == ~c.null /\ Len(c.text) > 0
ColumnLoads(c) == IF ColumnTruthy(c) THEN Loads(c.text) ELSE None
ColumnRaises(c) == ColumnTruthy(c) /\ ~CanLoad(c.text)

\* where a store operation meets a storage error
Faults == {"none", "connect", "execute", "commit"}
\* a reader commits nothing
ReadFaults == {"none", "execute"}

\* DROP TABLE and CREATE TABLE on every start
InitializeTableFresh(table) == {}
\* initialize_database: CREATE TABLE IF NOT EXISTS keeps an existing table and
\* its sqlite_sequence entry as they are
InitializeTable(table) == table

Max(S) == CHOOSE x \in S : \A y \in S : y <= x
\* INTEGER PRIMARY KEY without AUTOINCREMENT: one more than the largest rowid
\* the table holds now
NextRowidReuse(table, sequence) == Max({0} \cup {r.id : r \in table}) + 1
\* the rowid INTEGER PRIMARY KEY AUTOINCREMENT gives the next row: one more than
\* the largest rowid the table ever held
NextRowid(table, sequence) == Max({sequence} \cup {r.id : r \in table}) + 1

\* the row the INSERT of save_meeting_data writes
NewRow(id, date, f) ==
    [id |-> id, filename |-> f.filename, upload_date |-> date,
     transcription |-> Column(f.transcription), summary |-> Column(f.summary),
     sentiment |-> Column(f.sentiment), topics |-> Column(f.topics),
     speakers |-> Column(f.speakers), knowledge_graph |-> Column(f.knowledge_graph),
     file_size |-> f.file_size, duration |-> f.duration]

\* json.dumps raises on one of the parameters
SaveParamsRaise(f) ==
    \E k \in StructuredFields : Truthy(f[k]) /\ ~Serializable(f[k])

\* a save that looks for a row of the same filename first and writes over it
save_meeting_data_dedup(table, sequence, date, f, fault) ==
    IF fault = "connect" \/ SaveParamsRaise(f) \/ fault = "execute" \/ fault = "commit"
    THEN [id |-> NoId, rows |-> table, seq |-> sequence]
    ELSE IF \E r \in table : r.filename = f.filename
         THEN LET old == CHOOSE r \in table : r.filename = f.filename
              IN  [id |-> old.id, rows |-> (table \ {old}) \cup {NewRow(old.id, date, f)},
                   seq |-> sequence]
         ELSE LET id == NextRowid(table, sequence)
              IN  [id |-> id, rows |-> table \cup {NewRow(id, date, f)}, seq |-> id]

\* save_meeting_data: what it returns and the table and sequence it leaves.  An
\* exception before the commit leaves the transaction uncommitted: the closed
\* connection rolls it back.
save_meeting_data(table, sequence, date, f, fault) ==
    IF fault = "connect" \/ SaveParamsRaise(f) \/ fault = "execute" \/ fault = "commit"
    THEN [id |-> NoId, rows |-> table, seq |-> sequence]
    ELSE LET id == NextRowid(table, sequence)
         IN  [id |-> id, rows |-> table \cup {NewRow(id, date, f)}, seq |-> id]

\* the dictionary the readers build of a row
MeetingDict(r) ==
    [id |-> r.id, filename |-> r.filename, upload_date |-> r.upload_date,
     transcription |-> ColumnLoads(r.transcription), summary |-> ColumnLoads(r.summary),
     sentiment |-> ColumnLoads(r.sentiment), topics |-> ColumnLoads(r.topics),
     speakers |-> ColumnLoads(r.speakers),
     knowledge_graph |-> ColumnLoads(r.knowledge_graph),
     file_size |-> r.file_size, duration |-> r.duration]
RowRaises(r) == \E k \in StructuredFields : ColumnRaises(r[k])

\* the orders ORDER BY upload_date DESC may return the rows of S in: rows of one
\* upload_date come in an order SQL leaves open
RECURSIVE Orderings(_)
Orderings(S) ==
    IF S = {} THEN {<<>>}
    ELSE UNION {{<<r>> \o t : t \in Orderings(S \ {r})} :
                r \in {x \in S : \A y \in S : y.upload_date <= x.upload_date}}

MapDict(rs) == [i \in 1..Len(rs) |-> MeetingDict(rs[i])]

\* get_all_meetings, the rows fetched in the order `order`
get_all_meetings(order, fault) ==
    IF fault # "none" \/ \E i \in 1..Len(order) : RowRaises(order[i])
    THEN <<>>
    ELSE MapDict(order)

\* the result of get_meeting_by_id: found tells a dictionary from None
NotFound == [found |-> FALSE]
Found(d) == [found |-> TRUE, meeting |-> d]
get_meeting_by_id(table, meeting_id, fault) ==
    LET hit == {r \in table : r.id = meeting_id}
    IN  IF fault # "none" \/ hit = {} THEN NotFound
        ELSE LET r == CHOOSE x \in hit : TRUE
             IN  IF RowRaises(r) THEN NotFound ELSE Found(MeetingDict(r))

\* `DELETE FROM meetings WHERE id <= ?`
delete_meeting_upto(table, meeting_id, fault) ==
    IF fault # "none"
    THEN [ok |-> FALSE, rows |-> table]
    ELSE [ok |-> TRUE, rows |-> {r \in table : r.id > meeting_id}]
\* a connection in autocommit mode: the DELETE stands when the commit fails
delete_meeting_autocommit(table, meeting_id, fault) ==
    IF fault \in {"connect", "execute"}
    THEN [ok |-> FALSE, rows |-> table]
    ELSE [ok |-> fault = "none", rows |-> {r \in table : r.id # meeting_id}]
\* delete_meeting: what it returns and the table it leaves.  An exception before
\* the commit leaves the DELETE uncommitted: the closed connection rolls it back.
delete_meeting(table, meeting_id, fault) ==
    IF fault # "none"
    THEN [ok |-> FALSE, rows |-> table]
    ELSE [ok |-> TRUE, rows |-> {r \in table : r.id # meeting_id}]

(***************************************************************************)
(* search_meetings: the LIKE operator of SQLite over the characters of a   *)
(* column.                                                                 *)
(***************************************************************************)
\* the characters of a JSON text as json.dumps writes it (", " and ": " separate)
RECURSIVE Chars(_)
Chars(text) ==
    IF text = <<>> THEN <<>>
    ELSE LET k == Head(text)
         IN  (CASE k.t = "key" -> <<"\"", k.k, "\"", ":", " ">>
                [] k.t = "str" -> <<"\"">> \o k.s \o <<"\"">>
                [] k.t = "num" -> <<ToString(k.n)>>
                [] k.t = "float" -> <<ToString(k.h \div 100), ".", ToString(k.h % 100)>>
                [] k.t = "," -> <<",", " ">>
                [] OTHER -> <<k.t>>) \o Chars(Tail(text))

\* LIKE compares the ASCII letters without regard to case
Fold(c) ==
    CASE c = "A" -> "a"
      [] c = "B" -> "b"
      [] c = "Q" -> "q"
      [] OTHER -> c

\* pattern p from its i-th character on matches text t from its j-th on: "%" is
\* any run of characters, "_" any one character
RECURSIVE Like(_, _, _, _)
Like(p, i, t, j) ==
    IF i > Len(p) THEN j > Len(t)
    ELSE IF p[i] = "%" THEN \E k \in j..(Len(t) + 1) : Like(p, i + 1, t, k)
    ELSE /\ j <= Len(t)
         /\ (p[i] = "_" \/ Fold(p[i]) = Fold(t[j]))
         /\ Like(p, i + 1, t, j + 1)

\* `column LIKE '%query%'`; a NULL column matches nothing
ColumnLike(c, query) == ~c.null /\ Like(<<"%">> \o query \o <<"%">>, 1, Chars(c.text), 1)

SearchHit(r, query) ==
    \/ Like(<<"%">> \o query \o <<"%">>, 1, r.filename, 1)
    \/ ColumnLike(r.transcription, query)
    \/ ColumnLike(r.summary, query)

\* search_meetings, the matching rows fetched in the order `order`
SearchRows(table, query) == {r \in table : SearchHit(r, query)}
search_meetings(order, fault) ==
    IF fault # "none" \/ \E i \in 1..Len(order) : RowRaises(order[i])
    THEN <<>>
    ELSE MapDict(order)

(***************************************************************************)
(* The audio normalizer: utils/audio_processor.py.  A path and a file name *)
(* are sequences of symbols.                                               *)
(***************************************************************************)
\* the path a failed process_audio_file returns (Python None)
NoPath == <<>>

\* s.split('.')[-1]: what follows the last "." of s, all of s when it has none
RECURSIVE LastPart(_)
LastPart(s) ==
    IF \A i \in 1..Len(s) : s[i] # "." THEN s
    ELSE LastPart(Tail(s))

IsPrefix(p, s) == Len(p) <= Len(s) /\ SubSeq(s, 1, Len(p)) = p
\* s.replace(old, new), for a non-empty old
RECURSIVE Replace(_, _, _)
Replace(s, old, new) ==
    IF s = <<>> THEN <<>>
    ELSE IF IsPrefix(old, s)
         THEN new \o Replace(SubSeq(s, Len(old) + 1, Len(s)), old, new)
         ELSE <<Head(s)>> \o Replace(Tail(s), old, new)

\* an allowlist that also admits plain text
supported_types_and_text ==
    {"audio/mpeg", "audio/wav", "audio/mp4", "audio/x-wav",
     "video/mp4", "video/quicktime", "video/x-msvideo", "text/plain"}
supported_types ==
    {"audio/mpeg", "audio/wav", "audio/mp4", "audio/x-wav",
     "video/mp4", "video/quicktime", "video/x-msvideo"}
\* detect_file_type returns None when python-magic raises
NoMime == "None"
IsVideo(mime) == mime \in {"video/mp4", "video/quicktime", "video/x-msvideo"}

\* tempfile.NamedTemporaryFile(delete=False, suffix="." + extension)
TempPath(stem, name) == <<"/tmp/", "tmp">> \o stem \o <<".">> \o LastPart(name)

\* the format of an audio stream: channels, bits per sample, samples per second
AudioFormat(channels, bits, rate) ==
    [channels |-> channels, sample_width |-> bits, frame_rate |-> rate]
\* what `-acodec pcm_s16le -ar 16000 -ac 1` writes
FfmpegOutput == AudioFormat(1, 16, 16000)
\* a stereo recording at 44.1 kHz
StereoCD == AudioFormat(2, 16, 44100)

\* convert_to_wav: how the transcoder ends.  FFmpeg refuses to write over its own
\* input, whatever else holds
convert_to_wav(input_path, output_path, ffmpeg) ==
    IF input_path = output_path THEN "fail" ELSE ffmpeg

\* process_audio_file: the path it returns, the format of the audio there, and
\* the scratch files it leaves.  env.write: the upload was written; env.mime: the
\* detected type; env.format: the format of the upload's audio; env.ffmpeg: the
\* transcoder succeeded ("ok"), failed ("fail") or failed leaving a partial
\* output ("partial").
process_audio_file(disk, name, stem, env) ==
    LET temp_input_path == TempPath(stem, name)
        replaced == Replace(temp_input_path, LastPart(temp_input_path), <<"wav">>)
        convert == IsVideo(env.mime) \/ env.mime # "audio/wav"
        temp_output_path == IF convert THEN replaced ELSE temp_input_path
        success == convert_to_wav(temp_input_path, replaced, env.ffmpeg)
        written == disk \cup {temp_input_path}
    IN  IF ~env.write
        THEN [path |-> NoPath, files |-> written]
        ELSE IF env.mime = NoMime \/ env.mime \notin supported_types
        THEN [path |-> NoPath, files |-> written \ {temp_input_path}]
        ELSE IF convert /\ success # "ok"
        THEN [path |-> NoPath,
              files |-> (IF success = "partial"
                         THEN written \cup {temp_output_path}
                         ELSE written) \ {temp_input_path}]
        ELSE [path |-> temp_output_path,
              format |-> IF convert THEN FfmpegOutput ELSE env.format,
              files |-> IF temp_input_path # temp_output_path
                        THEN (written \cup {temp_output_path}) \ {temp_input_path}
                        ELSE written]

\* lines 62-65: whether process_audio_file calls convert_to_wav, and the paths
\* it passes
TranscoderCall(name, stem, env) ==
    LET temp_input_path == TempPath(stem, name)
    IN  [called |-> /\ env.write
                    /\ env.mime # NoMime /\ env.mime \in supported_types
                    /\ (IsVideo(env.mime) \/ env.mime # "audio/wav"),
         input_path |-> temp_input_path,
         output_path |-> Replace(temp_input_path, LastPart(temp_input_path), <<"wav">>)]

\* a failure reported as a negative length
get_audio_duration_negative(readable, seconds) == IF readable THEN seconds ELSE 0 - 1
\* get_audio_duration: the length in seconds, 0 when pydub raises
get_audio_duration(readable, seconds) == IF readable THEN seconds ELSE 0

(***************************************************************************)
(* The analysis stages: utils/ai_analyzer.py.  A remote call raises or     *)
(* answers with a content, a text that is empty when the service sent none.*)
(***************************************************************************)
RemoteError == [kind |-> "error"]
Reply(content) == [kind |-> "content", content |-> content]

\* the names bound at module level of ai_analyzer.py
ModuleNames ==
    {"OPENAI_API_KEY", "openai_client", "GROQ_API_KEY", "groq_client",
     "analysis_client", "analysis_model"}

\* lines 28-33: os.getenv gives None or a string; a client is named by the
\* module-level name that holds it
groq_client(GROQ_API_KEY) == IF Truthy(GROQ_API_KEY) THEN "groq_client" ELSE "None"
analysis_client(GROQ_API_KEY) ==
    IF groq_client(GROQ_API_KEY) # "None" THEN groq_client(GROQ_API_KEY)
    ELSE "openai_client"
analysis_model(GROQ_API_KEY) ==
    IF groq_client(GROQ_API_KEY) # "None" THEN "llama-3.3-70b-versatile" ELSE "gpt-4o"

\* the name each stage calls chat.completions.create on, and its model= argument
ClientName(stage) == IF stage = "identify_speakers" THEN "client" ELSE "analysis_client"
ModelArgument(stage, GROQ_API_KEY) ==
    IF stage = "identify_speakers" THEN "gpt-5" ELSE analysis_model(GROQ_API_KEY)
\* the requests a stage sends: none when its client name is unbound (NameError),
\* else one, through the client the name holds
Requests(stage, GROQ_API_KEY) ==
    IF ClientName(stage) \notin ModuleNames THEN <<>>
    ELSE <<[client |-> IF ClientName(stage) = "analysis_client"
                       THEN analysis_client(GROQ_API_KEY) ELSE ClientName(stage),
            model |-> ModelArgument(stage, GROQ_API_KEY)]>>

\* getattr(obj, name, default) on a response whose attributes are attrs
GetAttr(attrs, name, default) == IF HasKey(attrs, name) THEN Get(attrs, name) ELSE default

\* transcribe_audio: resp is the exception or the attributes of the response
transcribe_audio(resp) ==
    IF resp.kind = "error" THEN None
    ELSE Dict(<< <<"text", Get(resp.attrs, "text")>>,
                 <<"segments", GetAttr(resp.attrs, "segments", List(<<>>))>>,
                 <<"language", GetAttr(resp.attrs, "language", Str(<<"unknown">>))>> >>)

generate_meeting_summary(resp) ==
    IF resp.kind = "error" THEN None
    ELSE IF Len(resp.content) > 0
         THEN (IF CanLoad(resp.content) THEN Loads(resp.content) ELSE None)
         ELSE None

\* TextBlob's lexicon: the polarity and subjectivity of a word, in hundredths
Lexicon(w) ==
    CASE w = "good" -> [polarity |-> 70, subjectivity |-> 60]
      [] w = "bad" -> [polarity |-> -70, subjectivity |-> 67]
      [] OTHER -> [polarity |-> 0, subjectivity |-> 0]
RECURSIVE SumOver(_, _)
SumOver(s, field) ==
    IF s = <<>> THEN 0 ELSE Lexicon(Head(s))[field] + SumOver(Tail(s), field)
\* TextBlob(text).sentiment: the mean over the words the lexicon rates
TextBlobSentiment(s) ==
    LET rated == SelectSeq(s, LAMBDA w : Lexicon(w).subjectivity # 0)
        n == Len(rated)
        total == SumOver(rated, "polarity")
    IN  IF n = 0 THEN [polarity |-> 0, subjectivity |-> 0]
        ELSE [polarity |-> IF total >= 0 THEN total \div n ELSE -((-total) \div n),
              subjectivity |-> SumOver(rated, "subjectivity") \div n]

\* the thresholds read as inclusive: `polarity >= 0.1`, `polarity <= -0.1`
SentimentLabelInclusive(polarity) ==
    IF polarity >= 10 THEN "Positive"
    ELSE IF polarity <= -10 THEN "Negative"
    ELSE "Neutral"
\* the label of a polarity, in hundredths
SentimentLabel(polarity) ==
    IF polarity > 10 THEN "Positive"
    ELSE IF polarity < -10 THEN "Negative"
    ELSE "Neutral"

\* the remote call raises, or json.loads raises on its content
analyze_sentiment_raises(text, resp) ==
    resp.kind = "error" \/ (Len(resp.content) > 0 /\ ~CanLoad(resp.content))
analyze_sentiment(text, resp) ==
    LET blob == TextBlobSentiment(text.s)
    IN  IF analyze_sentiment_raises(text, resp) THEN None
        ELSE Dict(<< <<"textblob",
                       Dict(<< <<"polarity", Float(blob.polarity)>>,
                               <<"subjectivity", Float(blob.subjectivity)>>,
                               <<"label", Str(<<SentimentLabel(blob.polarity)>>)>> >>)>>,
                     <<"ai_analysis",
                       IF Len(resp.content) > 0 THEN Loads(resp.content)
                       ELSE Dict(<<>>)>> >>)

\* the words TfidfVectorizer keeps: two letters or more and no English stop word
TermWords == {"good", "bad", "budget", "plan", "release"}
\* re.sub and lower() leave the letters of a word, in lower case
Terms(s) == SelectSeq([i \in 1..Len(s) |-> Fold(s[i])], LAMBDA w : w \in TermWords)
\* the features of ngram_range (1, 2): the terms, then the pairs of neighbours
RECURSIVE Distinct(_)
Distinct(s) ==
    IF s = <<>> THEN <<>>
    ELSE LET front == Distinct(SubSeq(s, 1, Len(s) - 1))
             x == s[Len(s)]
         IN  IF \E i \in 1..Len(front) : front[i] = x THEN front ELSE Append(front, x)
Features(s) ==
    LET t == Terms(s)
    IN  Distinct([i \in 1..Len(t) |-> <<t[i]>>]
                 \o [i \in 1..(Len(t) - 1) |-> <<t[i], " ", t[i + 1]>>])
Min(a, b) == IF a < b THEN a ELSE b
Prefix(s, n) == SubSeq(s, 1, Min(n, Len(s)))

\* fit_transform raises on an empty vocabulary, LatentDirichletAllocation on a
\* component count below one
extract_topics_raises(text, num_topics) ==
    Features(text.s) = <<>> \/ Min(num_topics, 5) < 1
\* extract_topics: one topic per component of the decomposition, each with its
\* first five features (their ranking and weight by LDA are left abstract)
extract_topics(text, num_topics) ==
    IF extract_topics_raises(text, num_topics) THEN List(<<>>)
    ELSE LET keywords == Prefix(Features(text.s), 5)
         IN  List([i \in 1..Min(num_topics, 5) |->
                     Dict(<< <<"id", Num(i - 1)>>,
                             <<"keywords", List([j \in 1..Len(keywords) |-> Str(keywords[j])])>>,
                             <<"weight", Float(100)>> >>)])

\* a fallback whose confidence is zero
CannedSpeakersZero ==
    Dict(<< <<"estimated_speakers", Num(1)>>, <<"speaker_segments", List(<<>>)>>,
            <<"confidence", Float(0)>> >>)
\* the result identify_speakers falls back to
CannedSpeakers ==
    Dict(<< <<"estimated_speakers", Num(1)>>, <<"speaker_segments", List(<<>>)>>,
            <<"confidence", Float(10)>> >>)
HasSegments(transcription_data) ==
    HasKey(transcription_data, "segments") /\ Truthy(Get(transcription_data, "segments"))
\* the remote branch calls `client`, a name the module never binds: NameError
identify_speakers_raises(transcription_data, resp) ==
    /\ HasSegments(transcription_data)
    /\ \/ "client" \notin ModuleNames
       \/ resp.kind = "error"
       \/ Len(resp.content) > 0 /\ ~CanLoad(resp.content)
identify_speakers(transcription_data, resp) ==
    IF identify_speakers_raises(transcription_data, resp) THEN CannedSpeakers
    ELSE IF HasSegments(transcription_data) /\ Len(resp.content) > 0
         THEN Loads(resp.content)
         ELSE CannedSpeakers

EmptyGraph == Dict(<< <<"nodes", List(<<>>)>>, <<"edges", List(<<>>)>> >>)
generate_knowledge_connections_raises(summary_data, topics, resp) ==
    \/ ~Serializable(summary_data) \/ ~Serializable(topics)
    \/ resp.kind = "error"
    \/ Len(resp.content) > 0 /\ ~CanLoad(resp.content)
generate_knowledge_connections(summary_data, topics, resp) ==
    IF generate_knowledge_connections_raises(summary_data, topics, resp) THEN EmptyGraph
    ELSE IF Len(resp.content) > 0 THEN Loads(resp.content)
    ELSE EmptyGraph

(***************************************************************************)
(* The store's operations as actions, and the inputs they draw.            *)
(***************************************************************************)
SampleNames == {<<"a", ".", "mp4">>, <<"B", ".", "wav">>}
SampleQueries == {<<"a">>, <<"b">>}

\* a value of each structured field, by kind: absent, empty, present, or holding
\* an object json.dumps cannot encode
Kinds == {"absent", "empty", "present", "unencodable"}
FieldSample(kind, k) ==
    CASE kind = "absent" -> None
      [] kind = "empty" -> IF k = "topics" THEN List(<<>>) ELSE Dict(<<>>)
      [] kind = "unencodable" -> IF k = "topics" THEN List(<<Opaque>>)
                                 ELSE Dict(<< <<"segments", List(<<Opaque>>)>> >>)
      [] k = "transcription" ->
            Dict(<< <<"text", Str(<<"a", "B">>)>>, <<"segments", List(<<>>)>>,
                    <<"language", Str(<<"en">>)>> >>)
      [] k = "summary" -> Dict(<< <<"executive_summary", Str(<<"q">>)>> >>)
      [] k = "sentiment" -> Dict(<< <<"ai_analysis", Dict(<<>>)>> >>)
      [] k = "topics" -> List(<<Dict(<< <<"id", Num(0)>> >>)>>)
      [] k = "speakers" -> Dict(<< <<"estimated_speakers", Num(1)>> >>)
      [] k = "knowledge_graph" -> Dict(<< <<"nodes", List(<<>>)>>, <<"edges", List(<<>>)>> >>)

SaveInputs ==
    {[filename |-> n, file_size |-> 1, duration |-> 0,
      transcription |-> FieldSample(kind, "transcription"),
      summary |-> FieldSample(kind, "summary"),
      sentiment |-> FieldSample(kind, "sentiment"),
      topics |-> FieldSample(kind, "topics"),
      speakers |-> FieldSample(kind, "speakers"),
      knowledge_graph |-> FieldSample(kind, "knowledge_graph")] :
     n \in SampleNames, kind \in Kinds}

\* the ids a caller may ask for: those assigned so far and the next one
AskIds == 1..(seq + 1)

Initialize ==
    /\ rows' = InitializeTable(rows)
    /\ last' = [op |-> "initialize_database"]
    /\ UNCHANGED <<seq, now, files, issued, run, session_state>>

\* a save, dt seconds after the operation before it
Save ==
    \E f \in SaveInputs, fault \in Faults, dt \in {0, 1} :
        LET r == save_meeting_data(rows, seq, now + dt, f, fault)
        IN  /\ Len(issued) < MaxSaves
            /\ rows' = r.rows
            /\ seq' = r.seq
            /\ now' = IF r.id # NoId THEN now + dt ELSE now
            /\ issued' = IF r.id # NoId THEN Append(issued, r.id) ELSE issued
            /\ last' = [op |-> "save_meeting_data", fields |-> f, fault |-> fault,
                        result |-> r.id]
            /\ UNCHANGED <<files, run, session_state>>

GetAll ==
    \E fault \in ReadFaults, order \in Orderings(rows) :
        /\ last' = [op |-> "get_all_meetings", fault |-> fault,
                    result |-> get_all_meetings(order, fault)]
        /\ UNCHANGED <<rows, seq, now, files, issued, run, session_state>>

GetById ==
    \E id \in AskIds, fault \in ReadFaults :
        /\ last' = [op |-> "get_meeting_by_id", id |-> id, fault |-> fault,
                    result |-> get_meeting_by_id(rows, id, fault)]
        /\ UNCHANGED <<rows, seq, now, files, issued, run, session_state>>

Search ==
    \E query \in SampleQueries, fault \in ReadFaults :
        \E order \in Orderings(SearchRows(rows, query)) :
            /\ last' = [op |-> "search_meetings", query |-> query, fault |-> fault,
                        result |-> search_meetings(order, fault)]
            /\ UNCHANGED <<rows, seq, now, files, issued, run, session_state>>

Delete ==
    \E id \in AskIds, fault \in Faults :
        LET r == delete_meeting(rows, id, fault)
        IN  /\ rows' = r.rows
            /\ last' = [op |-> "delete_meeting", id |-> id, fault |-> fault,
                        result |-> r.ok]
            /\ UNCHANGED <<seq, now, files, issued, run, session_state>>

(***************************************************************************)
(* The upload pipeline: components/file_upload.py.  process_meeting_file   *)
(* runs to its end once started; `run` holds its position, the locals it   *)
(* has bound, the functions it has called and those that failed.           *)
(***************************************************************************)
\* the functions process_meeting_file calls, in the order of its text
Stages ==
    <<"process_audio_file", "get_audio_duration", "transcribe_audio",
      "generate_meeting_summary", "analyze_sentiment", "extract_topics",
      "identify_speakers", "generate_knowledge_connections", "save_meeting_data",
      "display_processing_results">>

\* no run yet: no local is bound.  failed, raised, fault, before and mime keep
\* what the run met: the calls that failed, whether the handler ran, the storage
\* fault of its save, the table as the run found it, and the type detected of
\* its upload.
Idle ==
    [pc |-> "idle", name |-> <<>>, size |-> 0, audio_path |-> NoPath, duration |-> 0,
     transcription |-> None, summary |-> None, sentiment |-> None, topics |-> None,
     speakers |-> None, knowledge_graph |-> None, meeting_id |-> NoId,
     calls |-> <<>>, failed |-> {}, raised |-> FALSE, fault |-> "none", before |-> {},
     mime |-> NoMime]

\* the run has called `stage`, which failed or not
Called(r, stage, fails) ==
    [r EXCEPT !.calls = Append(@, stage),
              !.failed = IF fails THEN @ \cup {stage} ELSE @]

\* the test `value is None` in the place of `not value`
AbortsOnNone(value) == value = None
\* `if not transcription:` and `if not summary:` end the run
AbortsOn(value) == ~Truthy(value)

\* a handler that reports the error and removes nothing
HandlerKeeps(disk, audio_path) == disk
\* the `except Exception` of process_meeting_file: the scratch file goes if the
\* name is bound and the file exists
Handler(disk, audio_path) ==
    IF audio_path # NoPath /\ audio_path \in disk THEN disk \ {audio_path} ELSE disk

\* a call of the page (status_text.text, progress_bar.progress) raises before the
\* stage at run.pc is called: the handler runs and the run ends
Escape ==
    /\ run' = [run EXCEPT !.pc = "done", !.raised = TRUE]
    /\ files' = Handler(files, run.audio_path)

\* what the normalizer may meet in a run of the pipeline
Uploads == {[name |-> <<"a", ".", "mp4">>, size |-> 1]}
Stems == {<<"k">>}
NormalizerEnvs ==
    [write : {TRUE}, mime : {NoMime, "text/plain", "video/mp4"},
     format : {StereoCD}, ffmpeg : {"ok", "fail"}]

\* lines 44-52: a click on Process starts a run
StepNormalize ==
    /\ run.pc \in {"idle", "done"}
    /\ Len(issued) < MaxRuns
    /\ \E upload \in Uploads, stem \in Stems, env \in NormalizerEnvs :
        LET audio == process_audio_file(files, upload.name, stem, env)
            r == Called([Idle EXCEPT !.name = upload.name, !.size = upload.size,
                                     !.audio_path = audio.path, !.before = rows,
                                     !.mime = env.mime],
                        "process_audio_file", audio.path = NoPath)
        IN  /\ TempPath(stem, upload.name) \notin files
            /\ files' = audio.files
            /\ run' = [r EXCEPT !.pc = IF audio.path = NoPath THEN "done"
                                        ELSE "get_audio_duration"]
    /\ UNCHANGED <<rows, seq, now, last, issued, session_state>>

\* the length of the sample audio, in seconds
SampleSeconds == 180

\* lines 54-55
StepDuration ==
    /\ run.pc = "get_audio_duration"
    /\ \E readable \in BOOLEAN :
        run' = [Called(run, "get_audio_duration", ~readable)
                    EXCEPT !.duration = get_audio_duration(readable, SampleSeconds),
                           !.pc = "transcribe_audio"]
    /\ UNCHANGED <<rows, seq, now, files, last, issued, session_state>>

SampleTexts == {<<"good", " ", "plan">>, <<"a">>}
SampleSegments == {List(<<>>), List(<<Dict(<< <<"id", Num(0)>> >>)>>)}
Transcribed(t, sg) ==
    [kind |-> "ok",
     attrs |-> Dict(<< <<"text", Str(t)>>, <<"segments", sg>>,
                       <<"language", Str(<<"en">>)>> >>)]
\* the last answer holds segments json cannot encode
TranscribeResponses ==
    {RemoteError} \cup {Transcribed(t, sg) : t \in SampleTexts, sg \in SampleSegments}
    \cup {Transcribed(<<"a">>, List(<<Opaque>>))}

\* a transcription that failed once is asked for a second time
StepTranscribeRetries ==
    /\ run.pc = "transcribe_audio"
    /\ \E raises \in BOOLEAN :
        IF raises THEN Escape
        ELSE \E resp \in TranscribeResponses :
             LET transcription == transcribe_audio(resp)
                 r == [Called(run, "transcribe_audio", ~Truthy(transcription))
                          EXCEPT !.transcription = transcription]
             IN  IF AbortsOn(transcription)
                 THEN IF "transcribe_audio" \in run.failed
                      THEN /\ files' = files \ {run.audio_path}
                           /\ run' = [r EXCEPT !.pc = "done"]
                      ELSE /\ files' = files
                           /\ run' = r
                 ELSE /\ files' = files
                      /\ run' = [r EXCEPT !.pc = "generate_meeting_summary"]
    /\ UNCHANGED <<rows, seq, now, last, issued, session_state>>

\* lines 57-65
StepTranscribe ==
    /\ run.pc = "transcribe_audio"
    /\ \E raises \in BOOLEAN :
        IF raises THEN Escape
        ELSE \E resp \in TranscribeResponses :
             LET transcription == transcribe_audio(resp)
                 r == [Called(run, "transcribe_audio", ~Truthy(transcription))
                          EXCEPT !.transcription = transcription]
             IN  IF AbortsOn(transcription)
                 THEN /\ files' = files \ {run.audio_path}
                      /\ run' = [r EXCEPT !.pc = "done"]
                 ELSE /\ files' = files
                      /\ run' = [r EXCEPT !.pc = "generate_meeting_summary"]
    /\ UNCHANGED <<rows, seq, now, last, issued, session_state>>

\* a text json.loads rejects
Malformed == <<Tok("{")>>
FullSummary ==
    Dict(<< <<"executive_summary", Str(<<"q">>)>>,
            <<"key_topics", List(<<Str(<<"plan">>)>>)>>,
            <<"decisions", List(<<>>)>>,
            <<"action_items",
              List(<<Dict(<< <<"item", Str(<<"q">>)>>,
                             <<"responsible_party", Str(<<"B">>)>> >>)>>)>>,
            <<"important_quotes", List(<<>>)>>,
            <<"meeting_category", Str(<<"q">>)>> >>)
PartialSummary == Dict(<< <<"executive_summary", Str(<<"q">>)>> >>)
SummaryResponses ==
    {RemoteError, Reply(<<>>), Reply(Malformed), Reply(Dumps(Dict(<<>>))),
     Reply(Dumps(PartialSummary)), Reply(Dumps(FullSummary))}

\* lines 67-75
StepSummarize ==
    /\ run.pc = "generate_meeting_summary"
    /\ \E raises \in BOOLEAN :
        IF raises THEN Escape
        ELSE \E resp \in SummaryResponses :
             LET summary == generate_meeting_summary(resp)
                 r == [Called(run, "generate_meeting_summary", ~Truthy(summary))
                          EXCEPT !.summary = summary]
             IN  IF AbortsOn(summary)
                 THEN /\ files' = files \ {run.audio_path}
                      /\ run' = [r EXCEPT !.pc = "done"]
                 ELSE /\ files' = files
                      /\ run' = [r EXCEPT !.pc = "analyze_sentiment"]
    /\ UNCHANGED <<rows, seq, now, last, issued, session_state>>

SampleAnalysis == Dict(<< <<"overall_sentiment", Str(<<"positive">>)>> >>)
SentimentResponses == {RemoteError, Reply(Malformed), Reply(Dumps(SampleAnalysis))}

\* the sentiment stage treated as a mandatory one: no sentiment ends the run
StepSentimentAborts ==
    /\ run.pc = "analyze_sentiment"
    /\ \E raises \in BOOLEAN :
        IF raises THEN Escape
        ELSE \E resp \in SentimentResponses :
             LET text == Get(run.transcription, "text")
                 r == [Called(run, "analyze_sentiment", analyze_sentiment_raises(text, resp))
                          EXCEPT !.sentiment = analyze_sentiment(text, resp)]
             IN  IF AbortsOn(r.sentiment)
                 THEN /\ files' = files \ {run.audio_path}
                      /\ run' = [r EXCEPT !.pc = "done"]
                 ELSE /\ files' = files
                      /\ run' = [r EXCEPT !.pc = "extract_topics"]
    /\ UNCHANGED <<rows, seq, now, last, issued, session_state>>

\* lines 77-81
StepSentiment ==
    /\ run.pc = "analyze_sentiment"
    /\ \E raises \in BOOLEAN :
        IF raises THEN Escape
        ELSE \E resp \in SentimentResponses :
             LET text == Get(run.transcription, "text")
             IN  /\ files' = files
                 /\ run' = [Called(run, "analyze_sentiment",
                                   analyze_sentiment_raises(text, resp))
                               EXCEPT !.sentiment = analyze_sentiment(text, resp),
                                      !.pc = "extract_topics"]
    /\ UNCHANGED <<rows, seq, now, last, issued, session_state>>

\* lines 83-87
StepTopics ==
    /\ run.pc = "extract_topics"
    /\ \E raises \in BOOLEAN :
        IF raises THEN Escape
        ELSE LET text == Get(run.transcription, "text")
             IN  /\ files' = files
                 /\ run' = [Called(run, "extract_topics", extract_topics_raises(text, 5))
                               EXCEPT !.topics = extract_topics(text, 5),
                                      !.pc = "identify_speakers"]
    /\ UNCHANGED <<rows, seq, now, last, issued, session_state>>

SampleSpeakers ==
    Dict(<< <<"estimated_speakers", Num(2)>>, <<"speaker_segments", List(<<>>)>>,
            <<"confidence", Float(90)>> >>)
SpeakerResponses == {RemoteError, Reply(Dumps(SampleSpeakers))}

\* the speaker stage followed by the save, the knowledge graph left out
StepSpeakersSkips ==
    /\ run.pc = "identify_speakers"
    /\ \E raises \in BOOLEAN :
        IF raises THEN Escape
        ELSE \E resp \in SpeakerResponses :
             /\ files' = files
             /\ run' = [Called(run, "identify_speakers",
                               identify_speakers_raises(run.transcription, resp))
                           EXCEPT !.speakers = identify_speakers(run.transcription, resp),
                                  !.pc = "save_meeting_data"]
    /\ UNCHANGED <<rows, seq, now, last, issued, session_state>>

\* lines 89-93
StepSpeakers ==
    /\ run.pc = "identify_speakers"
    /\ \E raises \in BOOLEAN :
        IF raises THEN Escape
        ELSE \E resp \in SpeakerResponses :
             /\ files' = files
             /\ run' = [Called(run, "identify_speakers",
                               identify_speakers_raises(run.transcription, resp))
                           EXCEPT !.speakers = identify_speakers(run.transcription, resp),
                                  !.pc = "generate_knowledge_connections"]
    /\ UNCHANGED <<rows, seq, now, last, issued, session_state>>

SampleNode == Dict(<< <<"id", Str(<<"plan">>)>> >>)
FullGraph == Dict(<< <<"nodes", List(<<SampleNode>>)>>, <<"edges", List(<<>>)>> >>)
NodesOnly == Dict(<< <<"nodes", List(<<SampleNode>>)>> >>)
GraphResponses ==
    {RemoteError, Reply(<<>>), Reply(Malformed), Reply(Dumps(FullGraph))}

\* lines 95-99
StepGraph ==
    /\ run.pc = "generate_knowledge_connections"
    /\ \E raises \in BOOLEAN :
        IF raises THEN Escape
        ELSE \E resp \in GraphResponses :
             /\ files' = files
             /\ run' = [Called(run, "generate_knowledge_connections",
                               generate_knowledge_connections_raises(
                                   run.summary, run.topics, resp))
                           EXCEPT !.knowledge_graph =
                                      generate_knowledge_connections(
                                          run.summary, run.topics, resp),
                                  !.pc = "save_meeting_data"]
    /\ UNCHANGED <<rows, seq, now, last, issued, session_state>>

\* lines 101-137: the save, the removal of the scratch file, and on success the
\* preview, which may raise into the handler.  A run takes a second of the clock.
StepSave ==
    /\ run.pc = "save_meeting_data"
    /\ \E raises \in {"none", "save_meeting_data", "display_processing_results"} :
        IF raises = "save_meeting_data"
        THEN Escape /\ UNCHANGED <<rows, seq, now, issued>>
        ELSE \E fault \in Faults :
             LET saved == save_meeting_data(rows, seq, now + 1,
                              [filename |-> run.name, transcription |-> run.transcription,
                               summary |-> run.summary, sentiment |-> run.sentiment,
                               topics |-> run.topics, speakers |-> run.speakers,
                               knowledge_graph |-> run.knowledge_graph,
                               file_size |-> run.size, duration |-> run.duration],
                              fault)
                 r == [Called(run, "save_meeting_data", saved.id = NoId)
                          EXCEPT !.meeting_id = saved.id, !.fault = fault, !.pc = "done"]
             IN  /\ rows' = saved.rows
                 /\ seq' = saved.seq
                 /\ now' = IF saved.id # NoId THEN now + 1 ELSE now
                 /\ issued' = IF saved.id # NoId THEN Append(issued, saved.id) ELSE issued
                 /\ files' = files \ {run.audio_path}
                 /\ run' = IF saved.id = NoId THEN r
                           ELSE [Called(r, "display_processing_results",
                                        raises = "display_processing_results")
                                    EXCEPT !.raised = (raises = "display_processing_results")]
    /\ UNCHANGED <<last, session_state>>

\* a browser session that has clicked nothing: no confirm_delete_<id> key is
\* set.  clicks keeps the meetings whose Delete button was clicked, each named
\* by the place of its save among the saves.
NoClicks == [confirm |-> {}, clicks |-> {}]

\* a row an earlier session left in the table
SeedRow == NewRow(1, 0, [filename |-> <<"a", ".", "mp4">>, file_size |-> 1, duration |-> 0,
                         transcription |-> FieldSample("present", "transcription"),
                         summary |-> FullSummary, sentiment |-> None,
                         topics |-> List(<<>>), speakers |-> CannedSpeakers,
                         knowledge_graph |-> EmptyGraph])

\* the application starts on a new table or on the table of an earlier session
Init ==
    /\ rows \in {{}, {SeedRow}}
    /\ seq = IF rows = {} THEN 0 ELSE 1
    /\ now = 0
    /\ files = {}
    /\ last = [op |-> "start"]
    /\ issued = <<>>
    /\ run = Idle
    /\ session_state = NoClicks

InitStore == Init /\ rows = {}

NextStore == Initialize \/ Save \/ GetAll \/ GetById \/ Search \/ Delete

SpecStore == InitStore /\ [][NextStore]_vars

\* rows of a table another writer has touched: a summary cut short, and topics
\* that hold the empty text
TruncatedRow == [SeedRow EXCEPT !.id = 2, !.upload_date = 1, !.summary = Text(Malformed)]
EmptyTextRow == [SeedRow EXCEPT !.id = 3, !.upload_date = 1, !.topics = Text(<<>>)]
\* the readers start on any table of these rows
InitReaders ==
    /\ rows \in SUBSET {SeedRow, TruncatedRow, EmptyTextRow}
    /\ seq = Max({0} \cup {r.id : r \in rows})
    /\ now = 1
    /\ files = {}
    /\ last = [op |-> "start"]
    /\ issued = <<>>
    /\ run = Idle
    /\ session_state = NoClicks

NextReaders == GetAll \/ GetById \/ Search

SpecReaders == InitReaders /\ [][NextReaders]_vars

\* what the normalizer may meet, called on its own
AudioStems == {<<"k">>, <<"m">>}
AudioEnvs ==
    [write : BOOLEAN,
     mime : {NoMime, "text/plain", "audio/wav", "audio/x-wav", "video/mp4"},
     format : {FfmpegOutput, StereoCD}, ffmpeg : {"ok", "fail", "partial"}]

\* a call of process_audio_file; NamedTemporaryFile takes a name no file has
Normalize ==
    \E name \in SampleNames, stem \in AudioStems, env \in AudioEnvs :
        LET audio == process_audio_file(files, name, stem, env)
        IN  /\ TempPath(stem, name) \notin files
            /\ files' = audio.files
            /\ last' = [op |-> "process_audio_file", name |-> name, env |-> env,
                        result |-> audio, before |-> files,
                        transcoder |-> TranscoderCall(name, stem, env)]
            /\ UNCHANGED <<rows, seq, now, issued, run, session_state>>

\* the caller removes the file at the path it was given (os.unlink(audio_path))
Unlink ==
    /\ last.op = "process_audio_file"
    /\ last.result.path # NoPath
    /\ files' = files \ {last.result.path}
    /\ last' = [op |-> "unlink", path |-> last.result.path]
    /\ UNCHANGED <<rows, seq, now, issued, run, session_state>>

NextAudio == Normalize \/ Unlink

SpecAudio == InitStore /\ [][NextAudio]_vars

\* the polarities TextBlob may give, -1.0 to 1.0 in hundredths
Polarities == -100..100
\* lines 107-112 of analyze_sentiment, on a polarity
Label ==
    \E polarity \in Polarities :
        /\ last' = [op |-> "sentiment_label", polarity |-> polarity,
                    label |-> SentimentLabel(polarity)]
        /\ UNCHANGED <<rows, seq, now, files, issued, run, session_state>>

\* transcripts of no term, of one term, of two and of five
TopicTexts ==
    {<<"a">>, <<"plan">>, <<"Good", " ", "plan">>,
     <<"good", " ", "bad", " ", "budget", " ", "plan", " ", "release">>}
TopicCounts == 0..MaxTopicCount
\* a call of extract_topics
Topics ==
    \E text \in TopicTexts, num_topics \in TopicCounts :
        /\ last' = [op |-> "extract_topics", text |-> text, num_topics |-> num_topics,
                    result |-> extract_topics(Str(text), num_topics)]
        /\ UNCHANGED <<rows, seq, now, files, issued, run, session_state>>

NextStages == Label \/ Topics

SpecStages == InitStore /\ [][NextStages]_vars

\* what os.getenv("GROQ_API_KEY") may give: unset, empty, set
ApiKeys == {None, Str(<<>>), Str(<<"k">>)}
LanguageModelStages ==
    {"generate_meeting_summary", "analyze_sentiment", "identify_speakers",
     "generate_knowledge_connections"}

\* a call of generate_meeting_summary
Summarize ==
    \E key \in ApiKeys, resp \in SummaryResponses :
        /\ last' = [op |-> "generate_meeting_summary", key |-> key, resp |-> resp,
                    requests |-> Requests("generate_meeting_summary", key),
                    result |-> generate_meeting_summary(resp)]
        /\ UNCHANGED <<rows, seq, now, files, issued, run, session_state>>

\* a call of analyze_sentiment
Sentiment ==
    \E key \in ApiKeys, text \in SampleTexts, resp \in SentimentResponses :
        /\ last' = [op |-> "analyze_sentiment", key |-> key, text |-> text,
                    resp |-> resp,
                    requests |-> Requests("analyze_sentiment", key),
                    result |-> analyze_sentiment(Str(text), resp)]
        /\ UNCHANGED <<rows, seq, now, files, issued, run, session_state>>

\* transcriptions without a segments key, with no segment, and with one
SpeakerInputs ==
    {Dict(<< <<"text", Str(<<"a">>)>> >>)}
    \cup {Dict(<< <<"text", Str(<<"a">>)>>, <<"segments", sg>> >>) : sg \in SampleSegments}
SpeakerReplies ==
    {RemoteError, Reply(<<>>), Reply(Malformed), Reply(Dumps(SampleSpeakers))}
\* a call of identify_speakers: the branch without segments sends nothing
Speakers ==
    \E key \in ApiKeys, transcription_data \in SpeakerInputs, resp \in SpeakerReplies :
        /\ last' = [op |-> "identify_speakers", key |-> key,
                    transcription_data |-> transcription_data, resp |-> resp,
                    requests |-> IF HasSegments(transcription_data)
                                 THEN Requests("identify_speakers", key) ELSE <<>>,
                    result |-> identify_speakers(transcription_data, resp)]
        /\ UNCHANGED <<rows, seq, now, files, issued, run, session_state>>

\* answers that are JSON of another shape: null, a list, an object of other keys
GraphReplies ==
    GraphResponses
    \cup {Reply(Dumps(None)), Reply(Dumps(List(<<>>))), Reply(Dumps(Dict(<<>>))),
          Reply(Dumps(NodesOnly))}
\* a call of generate_knowledge_connections: json.dumps of its arguments comes
\* before the request
Connections ==
    \E key \in ApiKeys, summary_data \in {PartialSummary, FullSummary},
       topics \in {List(<<>>), List(<<Opaque>>)}, resp \in GraphReplies :
        /\ last' = [op |-> "generate_knowledge_connections", key |-> key,
                    summary_data |-> summary_data, topics |-> topics, resp |-> resp,
                    requests |-> IF Serializable(summary_data) /\ Serializable(topics)
                                 THEN Requests("generate_knowledge_connections", key)
                                 ELSE <<>>,
                    result |-> generate_knowledge_connections(summary_data, topics, resp)]
        /\ UNCHANGED <<rows, seq, now, files, issued, run, session_state>>

NextRemote == Summarize \/ Sentiment \/ Speakers \/ Connections

SpecRemote == InitStore /\ [][NextRemote]_vars

\* the meeting a row id shows: the latest save that was given the id, by its
\* place among the saves
Ordinal(id) == Max({i \in 1..Len(issued) : issued[i] = id})

\* a Delete button that removes the row at the first click
ClickDeleteAtOnce ==
    \E order \in Orderings(rows), fault \in ReadFaults :
        LET meetings == get_all_meetings(order, fault)
        IN  \E i \in 1..Len(meetings), delete_fault \in Faults :
                LET id == meetings[i].id
                    r == delete_meeting(rows, id, delete_fault)
                IN  /\ rows' = r.rows
                    /\ session_state' =
                           [confirm |-> session_state.confirm,
                            clicks |-> session_state.clicks \cup {Ordinal(id)}]
                    /\ last' = [op |-> "click_delete", id |-> id,
                                result |-> IF r.ok THEN "deleted" ELSE "failed"]
                    /\ UNCHANGED <<seq, now, files, issued, run>>

\* lines 204-214 of display_meeting_summary_card, on a click of the Delete
\* button of a meeting the page lists: the first click on an id sets
\* confirm_delete_<id>, a click with the key set calls delete_meeting
ClickDelete ==
    \E order \in Orderings(rows), fault \in ReadFaults :
        LET meetings == get_all_meetings(order, fault)
        IN  \E i \in 1..Len(meetings), delete_fault \in Faults :
                LET id == meetings[i].id
                    r == delete_meeting(rows, id, delete_fault)
                IN  /\ IF id \in session_state.confirm
                       THEN /\ rows' = r.rows
                            /\ session_state' =
                                   [session_state EXCEPT !.clicks = @ \cup {Ordinal(id)}]
                            /\ last' = [op |-> "click_delete", id |-> id,
                                        result |-> IF r.ok THEN "deleted" ELSE "failed"]
                       ELSE /\ rows' = rows
                            /\ session_state' =
                                   [confirm |-> session_state.confirm \cup {id},
                                    clicks |-> session_state.clicks \cup {Ordinal(id)}]
                            /\ last' = [op |-> "click_delete", id |-> id,
                                        result |-> "confirm"]
                    /\ UNCHANGED <<seq, now, files, issued, run>>

\* the meetings saved while the history page is in use: every field present
HistoryInputs == {f \in SaveInputs : f.summary = FieldSample("present", "summary")}
\* a save by the upload page, dt seconds after the operation before it
Upload ==
    \E f \in HistoryInputs, fault \in {"none", "commit"}, dt \in {0, 1} :
        LET r == save_meeting_data(rows, seq, now + dt, f, fault)
        IN  /\ Len(issued) < MaxSaves
            /\ rows' = r.rows
            /\ seq' = r.seq
            /\ now' = IF r.id # NoId THEN now + dt ELSE now
            /\ issued' = IF r.id # NoId THEN Append(issued, r.id) ELSE issued
            /\ last' = [op |-> "save_meeting_data", result |-> r.id]
            /\ UNCHANGED <<files, run, session_state>>

NextHistory == Upload \/ ClickDelete

SpecHistory == InitStore /\ [][NextHistory]_vars

Next ==
    \/ StepNormalize \/ StepDuration \/ StepTranscribe \/ StepSummarize
    \/ StepSentiment \/ StepTopics \/ StepSpeakers \/ StepGraph \/ StepSave

Spec == Init /\ [][Next]_vars

(***************************************************************************)
(* Properties of the upload pipeline, checked under Spec.                  *)
(***************************************************************************)
Done == run.pc = "done"
Saved == Done /\ run.meeting_id # NoId
Mandatory == {"process_audio_file", "transcribe_audio", "generate_meeting_summary"}
Enrichment ==
    {"analyze_sentiment", "extract_topics", "identify_speakers",
     "generate_knowledge_connections"}
\* the parameters the run passes to save_meeting_data
RunFields ==
    [filename |-> run.name, transcription |-> run.transcription,
     summary |-> run.summary, sentiment |-> run.sentiment, topics |-> run.topics,
     speakers |-> run.speakers, knowledge_graph |-> run.knowledge_graph,
     file_size |-> run.size, duration |-> run.duration]
\* the row the run wrote, and the record a reader returns of it
PersistedRow == CHOOSE r \in rows : r.id = run.meeting_id
ReadBack == get_meeting_by_id(rows, run.meeting_id, "none").meeting

\* C1: a run in which normalization, transcription or summarization failed
\* (returned None or an empty value) has not called save_meeting_data, and the
\* table holds exactly the rows the run found.
C1_MandatoryFailureSavesNothing ==
    (Done /\ run.failed \cap Mandatory # {}) =>
        /\ "save_meeting_data" \notin Range(run.calls)
        /\ rows = run.before
\* a run whose summary came back as the empty object, over a table with a row
C1_Witness ==
    /\ Done /\ run.summary = Dict(<<>>)
    /\ "generate_meeting_summary" \in run.failed
    /\ rows = {SeedRow}

\* C2: when a run that got a scratch path from process_audio_file has ended,
\* by a return or by the handler, the scratch file is gone.
C2_ScratchFileRemoved ==
    (Done /\ run.audio_path # NoPath) => run.audio_path \notin files
\* a run the handler ended between the sentiment and the knowledge-graph stage
C2_Witness ==
    /\ Done /\ run.audio_path # NoPath /\ run.raised
    /\ "generate_knowledge_connections" \notin Range(run.calls)
    /\ "analyze_sentiment" \in Range(run.calls)

\* C3: a run whose normalization, transcription and summarization succeeded, and
\* in which no call of the page raised before the save, has called
\* save_meeting_data whatever enrichment stages failed; and when the write meets no
\* storage fault and json can encode the fields, the table holds a new row under
\* the id the run got.
C3_EnrichmentFailuresStillSave ==
    (/\ Done
     /\ "generate_meeting_summary" \in Range(run.calls)
     /\ run.failed \cap Mandatory = {}
     /\ ~(run.raised /\ "save_meeting_data" \notin Range(run.calls))) =>
        /\ "save_meeting_data" \in Range(run.calls)
        /\ (run.fault = "none" /\ ~SaveParamsRaise(RunFields)) =>
               /\ run.meeting_id # NoId
               /\ \E r \in rows \ run.before : r.id = run.meeting_id
\* all four enrichment stages failed and the record was written
C3_Witness == Saved /\ Enrichment \subseteq run.failed /\ run.fault = "none"

StageField(stage) ==
    CASE stage = "analyze_sentiment" -> "sentiment"
      [] stage = "extract_topics" -> "topics"
      [] stage = "identify_speakers" -> "speakers"
      [] stage = "generate_knowledge_connections" -> "knowledge_graph"

\* C4 as stated: in the record a run persisted, the field of every enrichment
\* stage that failed is the null marker, read back as None.
C4_FailedFieldsAbsent ==
    Saved =>
        \A stage \in Enrichment \cap run.failed :
            /\ PersistedRow[StageField(stage)] = Null
            /\ ReadBack[StageField(stage)] = None
\* C4 amended: in the record a run persisted, the field of a failed sentiment or
\* topic stage is the null marker, read back as None; a failed speaker stage
\* leaves the canned single-speaker result and a failed knowledge-graph stage
\* the empty graph, both stored and read back as such.
C4_FailedFieldsAbsentOrDefault ==
    Saved =>
        /\ \A stage \in {"analyze_sentiment", "extract_topics"} \cap run.failed :
            /\ PersistedRow[StageField(stage)] = Null
            /\ ReadBack[StageField(stage)] = None
        /\ "identify_speakers" \in run.failed =>
            /\ PersistedRow.speakers = Text(Dumps(CannedSpeakers))
            /\ ReadBack.speakers = CannedSpeakers
        /\ "generate_knowledge_connections" \in run.failed =>
            /\ PersistedRow.knowledge_graph = Text(Dumps(EmptyGraph))
            /\ ReadBack.knowledge_graph = EmptyGraph
\* all four failed: the topics are stored as the null marker, the speakers are not
C4_Witness ==
    /\ Saved /\ Enrichment \subseteq run.failed
    /\ PersistedRow.topics = Null /\ PersistedRow.speakers # Null

\* C5: when the remote call of the sentiment stage fails, the sentiment the run
\* holds still carries the lexical score of the transcript, and the record
\* persisted carries it too.
C5_LexicalScoreSurvives ==
    "analyze_sentiment" \in run.failed =>
        /\ HasKey(run.sentiment, "textblob")
        /\ Saved => HasKey(ReadBack.sentiment, "textblob")

SummaryKeys ==
    {"executive_summary", "key_topics", "decisions", "action_items",
     "important_quotes", "meeting_category"}
GraphKeys == {"nodes", "edges"}
SpeakerKeys == {"estimated_speakers", "speaker_segments", "confidence"}
FullyFormed(v, keys) == v = None \/ (v.type = "dict" /\ keys \subseteq Keys(v))
\* C6: every record a run persisted has its summary, speakers and knowledge
\* graph either absent or holding every key of its shape.
C6_FieldsAbsentOrFullyFormed ==
    Saved =>
        /\ FullyFormed(ReadBack.summary, SummaryKeys)
        /\ FullyFormed(ReadBack.speakers, SpeakerKeys)
        /\ FullyFormed(ReadBack.knowledge_graph, GraphKeys)

(***************************************************************************)
(* Properties of the persistence store, checked under SpecStore.           *)
(***************************************************************************)
\* the value an operation of the store returns on failure
Sentinel(op) ==
    CASE op = "save_meeting_data" -> NoId
      [] op = "get_all_meetings" -> <<>>
      [] op = "search_meetings" -> <<>>
      [] op = "get_meeting_by_id" -> NotFound
      [] op = "delete_meeting" -> FALSE

\* C7: a save, getAll, search, getById or deleteById that meets a storage
\* fault returns its failure sentinel and leaves the table and the sequence as
\* they were; a failed save adds no row.
C7_FaultsReturnSentinel ==
    [][(/\ last'.op \in {"save_meeting_data", "get_all_meetings", "search_meetings",
                        "get_meeting_by_id", "delete_meeting"}
        /\ last'.fault # "none") =>
           /\ last'.result = Sentinel(last'.op)
           /\ rows' = rows
           /\ seq' = seq]_vars
\* a delete of a stored row failed at its commit, and the row is still there
C7_Witness ==
    /\ last.op = "delete_meeting" /\ last.fault = "commit" /\ last.result = FALSE
    /\ \E r \in rows : r.id = last.id

\* C8: the ids the successful saves returned are strictly increasing, whatever
\* rows were deleted in between.
C8_IdsStrictlyIncrease ==
    \A i, j \in 1..Len(issued) : i < j => issued[i] < issued[j]
\* the second save came after the first row was deleted: the table holds its row alone
C8_Witness ==
    /\ last.op = "save_meeting_data" /\ last.result # NoId
    /\ Len(issued) >= 2
    /\ \A r \in rows : r.id = last.result

\* C9: a stored row stays as it is, field by field, through every step, or the
\* step is a successful delete_meeting of its id, after which no row has that id.
C9_RowsOnlyChangeByTheirDelete ==
    [][\A r \in rows :
          \/ r \in rows'
          \/ /\ last'.op = "delete_meeting" /\ last'.id = r.id /\ last'.result = TRUE
             /\ \A x \in rows' : x.id # r.id]_vars
\* a delete of one row succeeded and another row is still stored
C9_Witness ==
    /\ last.op = "delete_meeting" /\ last.result = TRUE
    /\ rows # {} /\ \A r \in rows : r.id # last.id
    /\ last.id \in Range(issued)

\* C10: after a successful save, the row holds the null marker in a structured
\* column exactly when the field passed was None, and get_meeting_by_id of the
\* returned id gives back every structured field equal to the value passed.
C10_SaveThenGetReturnsFields ==
    (last.op = "save_meeting_data" /\ last.result # NoId) =>
        LET got == get_meeting_by_id(rows, last.result, "none")
            row == CHOOSE r \in rows : r.id = last.result
        IN  /\ got.found
            /\ \A k \in StructuredFields :
                /\ (row[k] = Null) <=> (last.fields[k] = None)
                /\ got.meeting[k] = last.fields[k]

\* C11 as stated: get_all_meetings without a storage fault returns every stored
\* row once, and a row saved later (of a greater id) never comes after a row
\* saved earlier, also when both were saved in one second.
C11_NewestFirst ==
    (last.op = "get_all_meetings" /\ last.fault = "none") =>
        LET res == last.result
        IN  /\ Len(res) = Cardinality(rows)
            /\ \A r \in rows : \E i \in 1..Len(res) : res[i] = MeetingDict(r)
            /\ \A i, j \in 1..Len(res) : i < j => res[i].id > res[j].id

(***************************************************************************)
(* Properties of the readers over a table holding texts json.loads         *)
(* rejects, checked under SpecReaders.                                     *)
(***************************************************************************)
\* the text of a column fails to parse
Unparseable(c) == ~c.null /\ ~CanLoad(c.text)
\* C12 as stated: when a stored row has a structured column whose text fails
\* to parse, get_all_meetings returns no record at all.
C12_UnparseableFailsClosed ==
    (/\ last.op = "get_all_meetings"
     /\ \E r \in rows : \E k \in StructuredFields : Unparseable(r[k])) =>
        last.result = <<>>

(***************************************************************************)
(* Further properties of the persistence store, checked under SpecStore.   *)
(***************************************************************************)
\* C13: a delete_meeting without a storage fault of the id of a stored row leaves
\* the table without that row and with every other row as it was:
\* get_meeting_by_id of the id finds nothing, and get_all_meetings returns the
\* records of the other rows, each once.
C13_DeleteRemovesExactlyThatRow ==
    [][(/\ last'.op = "delete_meeting" /\ last'.fault = "none"
        /\ \E r \in rows : r.id = last'.id) =>
           /\ last'.result = TRUE
           /\ rows' = {r \in rows : r.id # last'.id}
           /\ get_meeting_by_id(rows', last'.id, "none") = NotFound
           /\ \A order \in Orderings(rows') :
                LET res == get_all_meetings(order, "none")
                IN  /\ Len(res) = Cardinality(rows) - 1
                    /\ Range(res) = {MeetingDict(r) : r \in {x \in rows : x.id # last'.id}}]_vars
\* of two rows saved, the later one was deleted and the earlier one is stored
C13_Witness ==
    /\ last.op = "delete_meeting" /\ last.result = TRUE
    /\ Len(issued) = 2 /\ last.id = issued[2]
    /\ \E r \in rows : r.id = issued[1]

\* C14 as stated: delete_meeting returns True only when it removed a row, and
\* False when no row has the id.
C14_DeleteOfMissingRowFails ==
    [][last'.op = "delete_meeting" =>
          (last'.result = TRUE <=>
              (\E r \in rows : r.id = last'.id) /\ (\A r \in rows' : r.id # last'.id))]_vars

\* needle occurs in hay, symbol for symbol
Contains(hay, needle) ==
    \E i \in 1..(Len(hay) - Len(needle) + 1) :
        SubSeq(hay, i, i + Len(needle) - 1) = needle
\* the characters of a column contain the query as it is written
ColumnContains(c, query) == ~c.null /\ Contains(Chars(c.text), query)
\* C15 as stated: search_meetings without a storage fault returns the records of
\* exactly the rows whose filename, transcription text or summary text contains
\* the query literally, letter case included.
C15_SearchIsLiteralSubstring ==
    (last.op = "search_meetings" /\ last.fault = "none") =>
        {last.result[i].id : i \in 1..Len(last.result)} =
            {r.id : r \in {x \in rows :
                              \/ Contains(x.filename, last.query)
                              \/ ColumnContains(x.transcription, last.query)
                              \/ ColumnContains(x.summary, last.query)}}

(***************************************************************************)
(* Properties of the audio normalizer.  C17 is checked under Spec, C16 and *)
(* C18 under SpecAudio.                                                    *)
(***************************************************************************)
\* C16 as stated: whenever process_audio_file returns a path, the audio at the
\* path is mono, 16 bits a sample, 16000 samples a second.
C16_OutputIsCanonical ==
    (last.op = "process_audio_file" /\ last.result.path # NoPath) =>
        last.result.format = AudioFormat(1, 16, 16000)

\* detected types outside the allowlist: none, a text, an image, an audio type
\* the list does not name
OtherTypes == {NoMime, "text/plain", "image/png", "audio/ogg"}
\* C17: process_audio_file returns no path for an upload whose detected type is
\* missing or outside supported_types, under every file name; and a run whose
\* upload was of such a type has ended without a path, having called nothing
\* after process_audio_file, and with the table as it found it.
C17_UnsupportedTypeRejected ==
    /\ \A name \in SampleNames, stem \in Stems, mime \in OtherTypes :
            TempPath(stem, name) \notin files =>
                process_audio_file(files, name, stem,
                    [write |-> TRUE, mime |-> mime, format |-> StereoCD,
                     ffmpeg |-> "ok"]).path = NoPath
    /\ (Done /\ run.calls # <<>> /\ run.mime \in OtherTypes) =>
           /\ run.audio_path = NoPath
           /\ run.calls = <<"process_audio_file">>
           /\ rows = run.before
\* a run over a table with a row ended at an upload named .mp4 that is plain text
C17_Witness ==
    /\ Done /\ run.mime = "text/plain" /\ LastPart(run.name) = <<"mp4">>
    /\ run.audio_path = NoPath /\ rows = {SeedRow}

\* C18 as stated: after process_audio_file returns, the only scratch file it
\* has added to the disk is the one at the path it returned.
C18_NoScratchFileLeft ==
    last.op = "process_audio_file" =>
        files \ last.before \subseteq
            (IF last.result.path = NoPath THEN {} ELSE {last.result.path})

(***************************************************************************)
(* Properties of the analysis stages, checked under SpecStages.            *)
(***************************************************************************)
\* C19: the label is Positive exactly for a polarity above 0.1, Negative exactly
\* for a polarity below -0.1 and Neutral exactly in between, both 0.1 and -0.1
\* included.
C19_LabelByPolarity ==
    last.op = "sentiment_label" =>
        /\ last.label = "Positive" <=> last.polarity > 10
        /\ last.label = "Negative" <=> last.polarity < -10
        /\ last.label = "Neutral" <=> (-10 <= last.polarity /\ last.polarity <= 10)
\* the polarity is exactly 0.1 and the label is Neutral
C19_Witness ==
    last.op = "sentiment_label" /\ last.polarity = 10 /\ last.label = "Neutral"

\* the term clusters a transcript can tell apart are at most the features its
\* vocabulary holds
TermClusters(text) == Len(Features(text))
\* C20 as stated: extract_topics returns no more topics than the transcript has
\* term clusters and no more than 5, each of at most 5 keywords.
C20_TopicsBoundedByClusters ==
    last.op = "extract_topics" =>
        LET topics == last.result.items
        IN  /\ Len(topics) <= TermClusters(last.text)
            /\ Len(topics) <= 5
            /\ \A i \in 1..Len(topics) : Len(Get(topics[i], "keywords").items) <= 5
(***************************************************************************)
(* Order, retries and row counts of the pipeline, checked under Spec.      *)
(***************************************************************************)
\* C24: the calls of a run are a beginning of the fixed sequence normalize,
\* duration, transcribe, summarize, sentiment, topics, speakers, knowledge
\* graph, save, preview; the stage about to be called is the one after the last
\* that returned; and save is called only after the knowledge-graph stage has
\* returned its value.
C24_StagesInFixedOrder ==
    /\ IsPrefix(run.calls, Stages)
    /\ run.pc \notin {"idle", "done"} => run.pc = Stages[Len(run.calls) + 1]
    /\ (run.pc = "save_meeting_data" \/ "save_meeting_data" \in Range(run.calls)) =>
        /\ "generate_knowledge_connections" \in Range(run.calls)
        /\ run.knowledge_graph # None
\* a run that went through every stage and saved
C24_Witness == Saved /\ run.calls = Stages

\* C25: from its start on, a run has added at most one row and removed or
\* replaced none; a run that called save_meeting_data with encodable fields and
\* no storage fault has added exactly one, under its filename and an id above
\* every id the table held, whether or not a row of that filename was there.
C25_OneFreshRowPerRun ==
    run.pc # "idle" =>
        LET new == rows \ run.before
        IN  /\ run.before \subseteq rows
            /\ Cardinality(new) <= 1
            /\ (/\ "save_meeting_data" \in Range(run.calls)
                /\ run.fault = "none" /\ ~SaveParamsRaise(RunFields)) =>
                   \E r \in new :
                       /\ new = {r}
                       /\ r.id = run.meeting_id /\ r.filename = run.name
                       /\ \A b \in run.before : r.id > b.id
\* a saved run of a.mp4 over a table that held a row of a.mp4
C25_Witness ==
    /\ Saved
    /\ \E b \in run.before : b.filename = run.name
    /\ Cardinality({r \in rows : r.filename = run.name}) = Cardinality(run.before) + 1

\* C26: no function is called twice in a run: a remote call that failed and a
\* store write that failed are not repeated.
C26_EachCallAtMostOnce ==
    \A i, j \in 1..Len(run.calls) : run.calls[i] = run.calls[j] => i = j
\* a run whose sentiment call failed and whose write failed, at its end
C26_Witness ==
    /\ Done
    /\ {"analyze_sentiment", "save_meeting_data"} \subseteq run.failed
    /\ rows = run.before

\* C30: after a failure of get_audio_duration the duration of the run is 0, the
\* run goes on to the transcription (only an exception of the page ends it
\* before), and the record a saved run persisted has duration 0, in the table
\* and as read back.
C30_DurationFailureContinues ==
    "get_audio_duration" \in run.failed =>
        /\ run.duration = 0
        /\ (Done /\ ~run.raised) => "transcribe_audio" \in Range(run.calls)
        /\ Saved => PersistedRow.duration = 0 /\ ReadBack.duration = 0
\* a saved run that went through every stage after the duration failed
C30_Witness ==
    /\ Saved /\ "get_audio_duration" \in run.failed
    /\ run.calls = Stages

(***************************************************************************)
(* The paths given to the transcoder, checked under SpecAudio.             *)
(***************************************************************************)
\* C29: in every call of process_audio_file that invokes the transcoder, the
\* output path passed differs from the input path.
C29_TranscoderPathsDiffer ==
    (last.op = "process_audio_file" /\ last.transcoder.called) =>
        last.transcoder.input_path # last.transcoder.output_path
\* the upload B.wav detected as audio/x-wav
C29_Witness ==
    /\ last.op = "process_audio_file" /\ last.transcoder.called
    /\ last.name = <<"B", ".", "wav">> /\ last.env.mime = "audio/x-wav"

(***************************************************************************)
(* Properties of the language-model stages, checked under SpecRemote.      *)
(***************************************************************************)
\* a value with a nodes sequence and an edges sequence
GraphShaped(v) ==
    /\ HasKey(v, "nodes") /\ Get(v, "nodes").type = "list"
    /\ HasKey(v, "edges") /\ Get(v, "edges").type = "list"
\* an answer with nothing to use: an error, no content, or a text that is no JSON
Unusable(resp) ==
    resp.kind = "error" \/ resp.content = <<>> \/ ~CanLoad(resp.content)

\* C21: whatever the remote outcome, generate_knowledge_connections returns a
\* value (never None) with a nodes sequence and an edges sequence, and the empty
\* graph when the response is unusable.
C21_GraphAlwaysNodesAndEdges ==
    last.op = "generate_knowledge_connections" =>
        /\ last.result # None
        /\ GraphShaped(last.result)
        /\ Unusable(last.resp) => last.result = EmptyGraph
\* the answer is the JSON object of a different shape: nodes and no edges
C21_Witness ==
    /\ last.op = "generate_knowledge_connections"
    /\ last.resp = Reply(Dumps(NodesOnly))
    /\ last.requests # <<>>

\* C22: a call of identify_speakers on a transcription without segment data
\* sends no request and returns one estimated speaker, no speaker segments
\* and confidence 0.1.
C22_NoSegmentsCannedResult ==
    (last.op = "identify_speakers" /\ ~HasSegments(last.transcription_data)) =>
        /\ last.requests = <<>>
        /\ last.result = Dict(<< <<"estimated_speakers", Num(1)>>,
                                 <<"speaker_segments", List(<<>>)>>,
                                 <<"confidence", Float(10)>> >>)
\* a call on a transcription whose segments list is empty
C22_Witness ==
    /\ last.op = "identify_speakers"
    /\ HasKey(last.transcription_data, "segments")
    /\ ~HasSegments(last.transcription_data)
    /\ last.resp = Reply(Dumps(SampleSpeakers))
\* the statement with a confidence of zero
C22_ZeroConfidence ==
    (last.op = "identify_speakers" /\ ~HasSegments(last.transcription_data)) =>
        /\ last.requests = <<>>
        /\ last.result = Dict(<< <<"estimated_speakers", Num(1)>>,
                                 <<"speaker_segments", List(<<>>)>>,
                                 <<"confidence", Float(0)>> >>)

\* C23: every language-model stage that gets to its remote call sends exactly
\* one request, through the selected client with the selected model: groq_client
\* and its model when GROQ_API_KEY is set, else openai_client and its model.
C23_SameClientAndModel ==
    (/\ last.op \in LanguageModelStages
     /\ last.op = "identify_speakers" => HasSegments(last.transcription_data)
     /\ last.op = "generate_knowledge_connections" =>
            Serializable(last.summary_data) /\ Serializable(last.topics)) =>
        last.requests = <<[client |-> analysis_client(last.key),
                           model |-> analysis_model(last.key)]>>
\* the speaker stage called on a transcription with a segment
C23_Witness ==
    /\ last.op = "identify_speakers"
    /\ HasSegments(last.transcription_data)
    /\ last.key = Str(<<"k">>)

\* C27: on a transcription with segment data and an answer that is a JSON
\* object, identify_speakers returns the object of the answer.
C27_SpeakersReturnsAnswer ==
    (/\ last.op = "identify_speakers"
     /\ HasSegments(last.transcription_data)
     /\ last.resp.kind = "content" /\ CanLoad(last.resp.content)
     /\ Loads(last.resp.content).type = "dict") =>
        last.result = Loads(last.resp.content)
\* segments, and the answer of two speakers
C27_Witness ==
    /\ last.op = "identify_speakers"
    /\ HasSegments(last.transcription_data)
    /\ last.resp = Reply(Dumps(SampleSpeakers))
    /\ last.key = None

(***************************************************************************)
(* The Delete button of the history page, checked under SpecHistory.       *)
(***************************************************************************)
\* C28: a step that removes a row is a click on the Delete button of the
\* meeting of that row, it removes that row only, and the button of that same
\* meeting was clicked before; so a first click removes nothing and a click on
\* one meeting prepares the deletion of no other, whatever was saved or deleted
\* in between.
C28_DeleteOnlyOnSecondClick ==
    [][rows \ rows' # {} =>
          /\ last'.op = "click_delete"
          /\ \A r \in rows \ rows' :
                /\ r.id = last'.id
                /\ Ordinal(r.id) \in session_state.clicks]_vars
\* the second meeting deleted by its second click, after the first was saved,
\* clicked once and kept
C28_Witness ==
    /\ last.op = "click_delete" /\ last.result = "deleted" /\ last.id = 2
    /\ session_state.clicks = {1, 2}
    /\ {r.id : r \in rows} = {1}

====
